---- MODULE Spec2Model ----
(***************************************************************************)
(* v8pp/to_v8.hpp: the native objects registry (detail::object_registry)   *)
(* under both storage strategies, and the to_v8 conversions of iterator    *)
(* ranges and of std::map.                                                 *)
(*                                                                         *)
(* The registry is modelled for both settings of the compile-time switch   *)
(* V8PP_USE_GLOBAL_OBJECTS_REGISTRY: `perType` is the state of the build   *)
(* without it (one table per T), `global` the state of the build with it   *)
(* (one void*-keyed table plus one instances() set per T).  `build` says   *)
(* which build runs: "perType", "global", or "both" when the same calls    *)
(* are applied to the two builds side by side to compare them.             *)
(***************************************************************************)
EXTENDS Integers, Sequences, FiniteSets, TLC

\* ---------------------------------------------------------------- bounds
MaxHandles == 2      \* persistent handles the callers create (one per add)
NumAddrs == 2        \* distinct native addresses
MaxNest == 1         \* destroy callbacks that may be running inside a destroy callback
MaxLen == 3          \* longest converted sequence
MaxPtr == 2          \* non-null char const* keys of a converted map

Types == {"T1", "T2"}          \* two instantiations object_registry<T>
Addrs == 1 .. NumAddrs         \* T* values (the same address may be used as T1* and T2*)
Handles == 1 .. MaxHandles     \* v8::Persistent<v8::Value> cells
NoHandle == 0                  \* the empty v8::Handle<v8::Value>

VARIABLES build, perType, global, pc, hist, nextHandle, lastOp, start, input, output

vars == <<build, perType, global, pc, hist, nextHandle, lastOp, start, input, output>>

\* ------------------------------------------------- boost::unordered_map
\* A table is a function Addrs -> Handles \cup {NoHandle}; NoHandle = no entry.

\* find(k): the mapped value, or end() (NoHandle)
MapFind(m, k) == m[k]

\* a bug: insert that overwrites the mapped value of an existing key
MapInsertOverwrite(m, k, v) == [m EXCEPT ![k] = v]

\* insert(make_pair(k, v)): inserts only if there is no element with key k
MapInsert(m, k, v) == IF m[k] = NoHandle THEN [m EXCEPT ![k] = v] ELSE m

\* erase(it) with it = find(k)
MapErase(m, k) == [m EXCEPT ![k] = NoHandle]

\* the keys of a table
MapKeys(m) == {k \in DOMAIN m : m[k] # NoHandle}

\* ------------------------------------------------- v8::Persistent
\* disposed[h] counts the Dispose() calls on handle h.

\* a bug: the stored handle is not disposed
DisposeNothing(disposed, h) == disposed

\* it->second.Dispose()
Dispose(disposed, h) == [disposed EXCEPT ![h] = @ + 1]

\* ------------------------------------------------- events of a call
\* The trace of a registry call, in program order: "dispose" (Dispose() of the
\* handle h stored for object), "erase" (the entry of object is erased),
\* "destroy" (destroy(object) is invoked; h is what find(object) yields at that
\* moment).
Event(e, T, object, h) == [e |-> e, T |-> T, object |-> object, h |-> h]
Log(st, event) == [st EXCEPT !.ev = Append(@, event)]

\* destroy(object): control passes to the caller's function.  stack lists the
\* destroy callbacks that are running, innermost last, each with the handle
\* that was stored for its object.
InvokeDestroy(st, T, object, h, found) ==
    [Log(st, Event("destroy", T, object, found)) EXCEPT
        !.stack = Append(@, [T |-> T, object |-> object, h |-> h])]

\* ------------------------------------------------- object_registry<T>, per-type tables
\* perType = [items : one table per T, disposed, ev, stack]

\* object_registry<T>::add without V8PP_USE_GLOBAL_OBJECTS_REGISTRY
addP(st, T, object, value) ==
    [st EXCEPT !.items[T] = MapInsert(@, object, value)]

\* a bug: destroy(object) is invoked before the handle is disposed and the entry erased
removePDestroyFirst(st, T, object, destroy) ==
    LET it == MapFind(st.items[T], object)
    IN  IF it = NoHandle THEN st
        ELSE
          LET s1 == IF destroy THEN InvokeDestroy(st, T, object, it, MapFind(st.items[T], object))
                    ELSE st
              s2 == Log([s1 EXCEPT !.disposed = Dispose(@, it)], Event("dispose", T, object, it))
          IN  Log([s2 EXCEPT !.items[T] = MapErase(@, object)], Event("erase", T, object, it))

\* a bug: the destroy function is never invoked
removePNoDestroy(st, T, object, destroy) ==
    LET it == MapFind(st.items[T], object)
    IN  IF it = NoHandle THEN st
        ELSE
          LET s1 == Log([st EXCEPT !.disposed = Dispose(@, it)], Event("dispose", T, object, it))
          IN  Log([s1 EXCEPT !.items[T] = MapErase(@, object)], Event("erase", T, object, it))

\* object_registry<T>::remove without V8PP_USE_GLOBAL_OBJECTS_REGISTRY, up to
\* the point where destroy(object) is running; destroy says whether the
\* function pointer is non-null
removeP(st, T, object, destroy) ==
    LET it == MapFind(st.items[T], object)
    IN  IF it = NoHandle THEN st
        ELSE
          LET s1 == Log([st EXCEPT !.disposed = Dispose(@, it)], Event("dispose", T, object, it))
              s2 == Log([s1 EXCEPT !.items[T] = MapErase(@, object)], Event("erase", T, object, it))
          IN  IF destroy
              THEN InvokeDestroy(s2, T, object, it, MapFind(s2.items[T], object))
              ELSE s2

\* object_registry<T>::find without V8PP_USE_GLOBAL_OBJECTS_REGISTRY
findP(st, T, native) ==
    LET it == MapFind(st.items[T], native)
    IN  IF it # NoHandle THEN it ELSE NoHandle

\* ------------------------------------------------- object_registry<T>, global table
\* global = [items : global_registry_objects_, instances : one set per T,
\*           disposed, ev, stack]

\* object_registry<T>::add with V8PP_USE_GLOBAL_OBJECTS_REGISTRY
addG(st, T, object, value) ==
    LET s1 == [st EXCEPT !.instances[T] = @ \cup {object}]
    IN  [s1 EXCEPT !.items = MapInsert(@, object, value)]

\* a bug: object is not erased from instances()
removeGKeepInstance(st, T, object, destroy) ==
    LET it == MapFind(st.items, object)
    IN  IF it = NoHandle THEN st
        ELSE
          LET s1 == Log([st EXCEPT !.disposed = Dispose(@, it)], Event("dispose", T, object, it))
              s2 == Log([s1 EXCEPT !.items = MapErase(@, object)], Event("erase", T, object, it))
          IN  IF destroy
              THEN InvokeDestroy(s2, T, object, it, MapFind(s2.items, object))
              ELSE s2

\* object_registry<T>::remove with V8PP_USE_GLOBAL_OBJECTS_REGISTRY, up to the
\* point where destroy(object) is running
removeG(st, T, object, destroy) ==
    LET s0 == [st EXCEPT !.instances[T] = @ \ {object}]
        it == MapFind(s0.items, object)
    IN  IF it = NoHandle THEN s0
        ELSE
          LET s1 == Log([s0 EXCEPT !.disposed = Dispose(@, it)], Event("dispose", T, object, it))
              s2 == Log([s1 EXCEPT !.items = MapErase(@, object)], Event("erase", T, object, it))
          IN  IF destroy
              THEN InvokeDestroy(s2, T, object, it, MapFind(s2.items, object))
              ELSE s2

\* object_registry<T>::find with V8PP_USE_GLOBAL_OBJECTS_REGISTRY
findG(st, T, native) ==
    LET it == MapFind(st.items, native)
    IN  IF it # NoHandle THEN it ELSE NoHandle

\* the loop conditions of remove_all: what the loop still has to visit
remainingP(st, T) == MapKeys(st.items[T])
remainingG(st, T) == st.instances[T]

\* the entries remove_all<T> is to remove: the registry of T
registeredP(st, T) == st.items[T]
registeredG(st, T) ==
    [o \in Addrs |-> IF o \in st.instances[T] THEN st.items[o] ELSE NoHandle]

\* ------------------------------------------------- which build runs
RunsP == build \in {"perType", "both"}
RunsG == build \in {"global", "both"}

\* the state of the running build (of the per-type build when both run)
Reg == IF RunsP THEN perType ELSE global

\* find<T>(native) of the running build
find(T, native) == IF RunsP THEN findP(perType, T, native) ELSE findG(global, T, native)

\* the registry of T in the running build
registered(T) == IF RunsP THEN registeredP(perType, T) ELSE registeredG(global, T)

\* what the remove_all loop of the running build still has to visit
remaining(T) == IF RunsP THEN remainingP(perType, T) ELSE remainingG(global, T)

\* ------------------------------------------------- history of the calls
\* hist records which add calls are still "in force": last[T][o] is the handle
\* of the latest add<T>(o, _) since the last remove<T>(o, _) or remove_all;
\* first[T][o] is the handle of the add<T>(o, _) that found o unregistered,
\* since the last remove of o (in the global build: of the address o under any
\* T) or remove_all; accepted is the set of handles passed to an add that
\* found its object unregistered.
NoAdds == [T \in Types |-> [o \in Addrs |-> NoHandle]]

HistAdd(h0, T, object, value, found) ==
    [h0 EXCEPT !.last[T][object] = value,
               !.first[T][object] = IF found = NoHandle THEN value ELSE @,
               !.accepted = IF found = NoHandle THEN @ \cup {value} ELSE @]

HistRemove(h0, T, object) ==
    [h0 EXCEPT !.last[T][object] = NoHandle,
               !.first = [T2 \in Types |-> [o \in Addrs |->
                             IF o = object /\ (T2 = T \/ build = "global")
                             THEN NoHandle ELSE h0.first[T2][o]]]]

HistRemoveAll(h0) == [h0 EXCEPT !.last = NoAdds, !.first = NoAdds]

\* ------------------------------------------------- the registry as a state machine
\* lastOp is the registry call in progress or last completed: its arguments,
\* what find yielded for its object when it was entered (foundP, foundG),
\* whether the object was in instances() of its T (inG), and whether a destroy
\* callback has called into the registry during it (reentered).  start is the
\* registry of T when the remove_all in progress or last completed was entered.
NoOp == [kind |-> "none", T |-> "T1", object |-> 0, h |-> NoHandle, destroy |-> FALSE,
         foundP |-> NoHandle, foundG |-> NoHandle, inG |-> FALSE, reentered |-> FALSE]
NoStart == [o \in Addrs |-> NoHandle]
NoInput == [kind |-> "none", seq |-> <<>>, map |-> <<>>, mem |-> <<>>]
NoOutput == [randomDone |-> FALSE, random |-> <<>>, forwardDone |-> FALSE, forward |-> <<>>,
             objectDone |-> FALSE, object |-> <<>>]

\* a new call starts with an empty trace
Fresh(st) == [st EXCEPT !.ev = <<>>]

RegistryInit ==
    /\ perType = [items |-> [T \in Types |-> [o \in Addrs |-> NoHandle]],
                  disposed |-> [h \in Handles |-> 0], ev |-> <<>>, stack |-> <<>>]
    /\ global = [items |-> [o \in Addrs |-> NoHandle], instances |-> [T \in Types |-> {}],
                 disposed |-> [h \in Handles |-> 0], ev |-> <<>>, stack |-> <<>>]
    /\ pc = "idle"
    /\ hist = [last |-> NoAdds, first |-> NoAdds, accepted |-> {}]
    /\ nextHandle = 1
    /\ lastOp = NoOp
    /\ start = NoStart

\* the program is built with or without V8PP_USE_GLOBAL_OBJECTS_REGISTRY
Init ==
    /\ build \in {"perType", "global"}
    /\ RegistryInit
    /\ input = NoInput
    /\ output = NoOutput

Call(kind, T, object, h, destroy) ==
    [kind |-> kind, T |-> T, object |-> object, h |-> h, destroy |-> destroy,
     foundP |-> IF RunsP /\ object \in Addrs THEN findP(perType, T, object) ELSE NoHandle,
     foundG |-> IF RunsG /\ object \in Addrs THEN findG(global, T, object) ELSE NoHandle,
     inG |-> RunsG /\ object \in global.instances[T],
     reentered |-> FALSE]

\* no registry call is in progress
Idle == pc = "idle" /\ perType.stack = <<>> /\ global.stack = <<>>

\* a caller creates a new persistent handle and registers object with it
Add(T, object) ==
    /\ Idle
    /\ nextHandle <= MaxHandles
    /\ perType' = IF RunsP THEN addP(Fresh(perType), T, object, nextHandle) ELSE perType
    /\ global' = IF RunsG THEN addG(Fresh(global), T, object, nextHandle) ELSE global
    /\ nextHandle' = nextHandle + 1
    /\ lastOp' = Call("add", T, object, nextHandle, FALSE)
    /\ hist' = HistAdd(hist, T, object, nextHandle, find(T, object))
    /\ start' = NoStart
    /\ UNCHANGED <<build, pc, input, output>>

\* remove(object, destroy) is called; if it invokes destroy, the callback runs next
Remove(T, object, destroy) ==
    /\ Idle
    /\ build # "both"
    /\ perType' = IF RunsP THEN removeP(Fresh(perType), T, object, destroy) ELSE perType
    /\ global' = IF RunsG THEN removeG(Fresh(global), T, object, destroy) ELSE global
    /\ hist' = HistRemove(hist, T, object)
    /\ lastOp' = Call("remove", T, object, NoHandle, destroy)
    /\ start' = NoStart
    /\ UNCHANGED <<build, pc, nextHandle, input, output>>

Find(T, native) ==
    /\ Idle
    /\ perType' = Fresh(perType)
    /\ global' = Fresh(global)
    /\ lastOp' = Call("find", T, native, NoHandle, FALSE)
    /\ start' = NoStart
    /\ UNCHANGED <<build, pc, hist, nextHandle, input, output>>

\* remove_all(destroy) is entered
RemoveAll(T, destroy) ==
    /\ Idle
    /\ build # "both"
    /\ perType' = Fresh(perType)
    /\ global' = Fresh(global)
    /\ pc' = "loop"
    /\ hist' = HistRemoveAll(hist)
    /\ lastOp' = Call("remove_all", T, 0, NoHandle, destroy)
    /\ start' = registered(T)
    /\ UNCHANGED <<build, nextHandle, input, output>>

\* one iteration of while (!items().empty()) remove(items().begin()->first, destroy);
\* begin() of an unordered container is any of its elements
RemoveAllStepP ==
    /\ pc = "loop"
    /\ build = "perType"
    /\ perType.stack = <<>>
    /\ remainingP(perType, lastOp.T) # {}
    /\ \E object \in remainingP(perType, lastOp.T) :
         /\ perType' = removeP(perType, lastOp.T, object, lastOp.destroy)
         /\ hist' = HistRemove(hist, lastOp.T, object)
    /\ UNCHANGED <<build, global, pc, nextHandle, lastOp, start, input, output>>

\* one iteration of while (!instances().empty()) remove(*instances().begin(), destroy)
RemoveAllStepG ==
    /\ pc = "loop"
    /\ build = "global"
    /\ global.stack = <<>>
    /\ remainingG(global, lastOp.T) # {}
    /\ \E object \in remainingG(global, lastOp.T) :
         /\ global' = removeG(global, lastOp.T, object, lastOp.destroy)
         /\ hist' = HistRemove(hist, lastOp.T, object)
    /\ UNCHANGED <<build, perType, pc, nextHandle, lastOp, start, input, output>>

\* the loop condition fails: remove_all returns
RemoveAllReturn ==
    /\ pc = "loop"
    /\ Reg.stack = <<>>
    /\ remaining(lastOp.T) = {}
    /\ pc' = "idle"
    /\ UNCHANGED <<build, perType, global, hist, nextHandle, lastOp, start, input, output>>

\* the running destroy callback calls remove<T>(object, destroy) on the registry
CallbackRemove(T, object, destroy) ==
    /\ build # "both"
    /\ Reg.stack # <<>>
    /\ Len(Reg.stack) <= MaxNest
    /\ perType' = IF RunsP THEN removeP(perType, T, object, destroy) ELSE perType
    /\ global' = IF RunsG THEN removeG(global, T, object, destroy) ELSE global
    /\ hist' = HistRemove(hist, T, object)
    /\ lastOp' = [lastOp EXCEPT !.reentered = TRUE]
    /\ UNCHANGED <<build, pc, nextHandle, start, input, output>>

\* the running destroy callback returns, and with it the remove that invoked it
CallbackReturn ==
    /\ build # "both"
    /\ Reg.stack # <<>>
    /\ perType' = IF RunsP THEN [perType EXCEPT !.stack = SubSeq(@, 1, Len(@) - 1)] ELSE perType
    /\ global' = IF RunsG THEN [global EXCEPT !.stack = SubSeq(@, 1, Len(@) - 1)] ELSE global
    /\ UNCHANGED <<build, pc, hist, nextHandle, lastOp, start, input, output>>

AddCall == \E T \in Types, object \in Addrs : Add(T, object)
RemoveCall == \E T \in Types, object \in Addrs, destroy \in BOOLEAN : Remove(T, object, destroy)
FindCall == \E T \in Types, native \in Addrs : Find(T, native)
RemoveAllCall == \E T \in Types, destroy \in BOOLEAN : RemoveAll(T, destroy)
CallbackRemoveCall ==
    \E T \in Types, object \in Addrs, destroy \in BOOLEAN : CallbackRemove(T, object, destroy)

Next ==
    \/ AddCall
    \/ RemoveCall
    \/ FindCall
    \/ RemoveAllCall
    \/ RemoveAllStepP
    \/ RemoveAllStepG
    \/ RemoveAllReturn
    \/ CallbackRemoveCall
    \/ CallbackReturn

Spec == Init /\ [][Next]_vars

\* ------------------------------------------------- the two builds side by side
\* The same add, remove and find calls are applied to both builds.  A destroy
\* function here only destroys its argument and returns.
Returned(st) == [st EXCEPT !.stack = <<>>]

InitBoth ==
    /\ build = "both"
    /\ RegistryInit
    /\ input = NoInput
    /\ output = NoOutput

RemoveBoth(T, object, destroy) ==
    /\ Idle
    /\ build = "both"
    /\ perType' = Returned(removeP(Fresh(perType), T, object, destroy))
    /\ global' = Returned(removeG(Fresh(global), T, object, destroy))
    /\ hist' = HistRemove(hist, T, object)
    /\ lastOp' = Call("remove", T, object, NoHandle, destroy)
    /\ start' = NoStart
    /\ UNCHANGED <<build, pc, nextHandle, input, output>>

RemoveBothCall ==
    \E T \in Types, object \in Addrs, destroy \in BOOLEAN : RemoveBoth(T, object, destroy)

NextBoth ==
    \/ AddCall
    \/ RemoveBothCall
    \/ FindCall

SpecBoth == InitBoth /\ [][NextBoth]_vars

\* ------------------------------------------------- to_v8: the v8 values
NullPtr == 0                   \* a null char const*

\* v8::Int32::New(src)
Int32New(src) == [t |-> "Int32", v |-> src]

\* v8::String::New(chars)
StringNew(chars) == [t |-> "String", v |-> chars]

\* v8::Array::New(length): length elements, all holes
ArrayNew(length) == [length |-> length, elems |-> [i \in {} |-> 0]]

\* a bug: Set that stores the element without growing the array's length
ArraySetNoGrow(array, idx, value) ==
    [length |-> array.length,
     elems |-> [i \in DOMAIN array.elems \cup {idx} |->
                  IF i = idx THEN value ELSE array.elems[i]]]

\* v8::Array::Set(idx, value): stores the element; length becomes at least idx + 1
ArraySet(array, idx, value) ==
    [length |-> IF idx >= array.length THEN idx + 1 ELSE array.length,
     elems |-> [i \in DOMAIN array.elems \cup {idx} |->
                  IF i = idx THEN value ELSE array.elems[i]]]

\* v8::Object::New(): no properties
ObjectNew == [n \in {} |-> 0]

\* the property name a key value denotes
PropertyName(key) == key.v

\* a bug: Set that keeps the value of a property that already exists
ObjectSetKeepFirst(object, key, value) ==
    [n \in DOMAIN object \cup {PropertyName(key)} |->
        IF n \in DOMAIN object THEN object[n] ELSE value]

\* v8::Object::Set(key, value): creates or overwrites the property named by key
ObjectSet(object, key, value) ==
    [n \in DOMAIN object \cup {PropertyName(key)} |->
        IF n = PropertyName(key) THEN value ELSE object[n]]

\* ------------------------------------------------- to_v8: the conversions
\* to_v8(int32_t const src)
to_v8_int32(src) == Int32New(src)

\* to_v8(char const* src); mem[p] is the C string a non-null p points to
to_v8_cstr(src, mem) == StringNew(IF src # NullPtr THEN mem[src] ELSE "")

\* the loop of to_v8(Iterator, Iterator) [random access]; an iterator is a
\* position in src, end is the position past the last element.  idx is a
\* uint32_t; it cannot wrap for the lengths modelled (at most MaxLen)
RECURSIVE loopRandom(_, _, _, _, _)
loopRandom(result, src, begin, end, idx) ==
    IF begin # end
    THEN loopRandom(ArraySet(result, idx, to_v8_int32(src[begin])), src,
                    begin + 1, end, idx + 1)
    ELSE result

\* to_v8(Iterator begin, Iterator end) [random access]
to_v8_random(src) ==
    LET begin == 1
        end == Len(src) + 1
    IN  loopRandom(ArrayNew(end - begin), src, begin, end, 0)

\* the loop of to_v8(Iterator, Iterator) [not random access]
RECURSIVE loopForward(_, _, _, _, _)
loopForward(result, src, begin, end, idx) ==
    IF begin # end
    THEN loopForward(ArraySet(result, idx, to_v8_int32(src[begin])), src,
                     begin + 1, end, idx + 1)
    ELSE result

\* to_v8(Iterator begin, Iterator end) [not random access]
to_v8_forward(src) ==
    LET begin == 1
        end == Len(src) + 1
    IN  loopForward(ArrayNew(0), src, begin, end, 0)

\* std::map<char const*, int32_t>: a function from its keys to their values,
\* iterated in the order of std::less<char const*>.  MapEnd stands for end().
MapEnd == -1
MapBegin(src) ==
    IF DOMAIN src = {} THEN MapEnd
    ELSE CHOOSE k \in DOMAIN src : \A k2 \in DOMAIN src : k <= k2
MapIterNext(src, it) ==
    LET after == {k \in DOMAIN src : k > it}
    IN  IF after = {} THEN MapEnd ELSE CHOOSE k \in after : \A k2 \in after : k <= k2

\* the loop of to_v8(std::map const&)
RECURSIVE loopMap(_, _, _, _)
loopMap(result, src, mem, it) ==
    IF it # MapEnd
    THEN loopMap(ObjectSet(result, to_v8_cstr(it, mem), to_v8_int32(src[it])), src, mem,
                 MapIterNext(src, it))
    ELSE result

\* to_v8(std::map<Key, Value, Less, Alloc> const& src)
to_v8_map(src, mem) == loopMap(ObjectNew, src, mem, MapBegin(src))

\* ------------------------------------------------- to_v8 as a state machine
\* input is what the caller passes; output collects what the conversions return.
Int32s == {-7, 2147483647}
Strs == {"", "a"}
Ptrs == NullPtr .. MaxPtr
Seqs == UNION {[1 .. n -> Int32s] : n \in 0 .. MaxLen}
StdMaps == UNION {[K -> Int32s] : K \in SUBSET Ptrs}
Mems == [1 .. MaxPtr -> Strs]

Inputs ==
    {[kind |-> "seq", seq |-> q, map |-> <<>>, mem |-> <<>>] : q \in Seqs} \cup
    {[kind |-> "map", seq |-> <<>>, map |-> m, mem |-> c] : m \in StdMaps, c \in Mems}

ConvInit ==
    /\ build = "perType"
    /\ RegistryInit
    /\ input \in Inputs
    /\ output = NoOutput

ToV8Random ==
    /\ input.kind = "seq"
    /\ ~output.randomDone
    /\ output' = [output EXCEPT !.randomDone = TRUE, !.random = to_v8_random(input.seq)]
    /\ UNCHANGED <<build, perType, global, pc, hist, nextHandle, lastOp, start, input>>

ToV8Forward ==
    /\ input.kind = "seq"
    /\ ~output.forwardDone
    /\ output' = [output EXCEPT !.forwardDone = TRUE, !.forward = to_v8_forward(input.seq)]
    /\ UNCHANGED <<build, perType, global, pc, hist, nextHandle, lastOp, start, input>>

ToV8Map ==
    /\ input.kind = "map"
    /\ ~output.objectDone
    /\ output' = [output EXCEPT !.objectDone = TRUE, !.object = to_v8_map(input.map, input.mem)]
    /\ UNCHANGED <<build, perType, global, pc, hist, nextHandle, lastOp, start, input>>

ConvNext ==
    \/ ToV8Random
    \/ ToV8Forward
    \/ ToV8Map

ConvSpec == ConvInit /\ [][ConvNext]_vars

\* the scheduling of one thread: a loop that can iterate does, and a destroy
\* callback returns
FairSpec ==
    /\ Init
    /\ [][Next]_vars
    /\ WF_vars(RemoveAllStepP)
    /\ WF_vars(RemoveAllStepG)
    /\ WF_vars(RemoveAllReturn)
    /\ WF_vars(CallbackReturn)

\* ================================================= the properties
\* helpers of the statements
Positions(ev, e, T, object) ==
    {i \in 1 .. Len(ev) : ev[i].e = e /\ ev[i].T = T /\ ev[i].object = object}
Trace == Reg.ev
Found == IF RunsP THEN lastOp.foundP ELSE lastOp.foundG
Disposed(h) == Reg.disposed[h]
Stored(h) ==
    IF RunsP THEN \E T \in Types, o \in Addrs : perType.items[T][o] = h
    ELSE \E o \in Addrs : global.items[o] = h
Drained == Idle /\ \A T \in Types, o \in Addrs : find(T, o) = NoHandle

\* C1 as stated: after add(o, h) and before any remove(o, _) or remove_all,
\* find(o) returns h, whatever other calls came in between, further adds for o
\* included.
C1_FindReturnsLastAdded ==
    \A T \in Types, o \in Addrs :
        hist.last[T][o] # NoHandle => find(T, o) = hist.last[T][o]

\* C1 amended: after an add(o, h) that found o unregistered and before any
\* remove of o or remove_all, find(o) returns h; a further add for o with
\* another handle does not change it.
C1_FindReturnsFirstAdded ==
    \A T \in Types, o \in Addrs :
        hist.first[T][o] # NoHandle => find(T, o) = hist.first[T][o]

\* an add for an object registered by an earlier add has been made, and find
\* still returns the earlier handle
C1_Witness ==
    /\ lastOp.kind = "add"
    /\ hist.first[lastOp.T][lastOp.object] # NoHandle
    /\ hist.first[lastOp.T][lastOp.object] # lastOp.h
    /\ find(lastOp.T, lastOp.object) = hist.first[lastOp.T][lastOp.object]

\* C2: remove(o, destroy) on a registered o disposes the stored handle, then
\* erases the entry, then invokes destroy(o) if destroy is non-null, exactly
\* once; afterwards find(o) is empty and the handle is disposed; while a
\* destroy callback runs, its object is unregistered and its handle disposed.
C2_RemoveOrder ==
    /\ (lastOp.kind = "remove" /\ Found # NoHandle) =>
          /\ Len(Trace) >= 2
          /\ Trace[1] = Event("dispose", lastOp.T, lastOp.object, Found)
          /\ Trace[2] = Event("erase", lastOp.T, lastOp.object, Found)
          /\ lastOp.destroy =>
                /\ Len(Trace) >= 3
                /\ Trace[3] = Event("destroy", lastOp.T, lastOp.object, NoHandle)
                /\ Cardinality(Positions(Trace, "destroy", lastOp.T, lastOp.object)) = 1
          /\ ~lastOp.destroy => Len(Trace) = 2
          /\ find(lastOp.T, lastOp.object) = NoHandle
          /\ Disposed(Found) = 1
    /\ \A i \in 1 .. Len(Reg.stack) :
          /\ find(Reg.stack[i].T, Reg.stack[i].object) = NoHandle
          /\ Disposed(Reg.stack[i].h) = 1

\* a remove of a registered object with a non-null destroy has completed
C2_Witness ==
    /\ lastOp.kind = "remove"
    /\ Found # NoHandle
    /\ lastOp.destroy
    /\ Idle
    /\ Len(Trace) = 3

\* C3 as stated: remove(o, destroy) on an o that is not registered (for its T)
\* changes nothing: no handle is disposed, no entry erased, destroy not invoked,
\* in both builds.
C3_RemoveUnregisteredIsNoOp ==
    (/\ lastOp.kind = "remove"
     /\ IF build = "global" THEN ~lastOp.inG ELSE lastOp.foundP = NoHandle)
    => Trace = <<>>

\* C4: when remove_all(destroy) returns (no callback having called into the
\* registry), the registry of T is empty, every handle stored at the start is
\* disposed, and destroy was invoked exactly once for each entry registered at
\* the start and for nothing else, each time after the entry's handle was disposed.
C4_RemoveAll ==
    (lastOp.kind = "remove_all" /\ pc = "idle" /\ ~lastOp.reentered) =>
        /\ \A o \in Addrs : registered(lastOp.T)[o] = NoHandle
        /\ \A o \in Addrs : start[o] # NoHandle =>
              /\ find(lastOp.T, o) = NoHandle
              /\ Disposed(start[o]) = 1
              /\ Cardinality(Positions(Trace, "dispose", lastOp.T, o)) = 1
              /\ Cardinality(Positions(Trace, "destroy", lastOp.T, o)) =
                    (IF lastOp.destroy THEN 1 ELSE 0)
              /\ \A i \in Positions(Trace, "destroy", lastOp.T, o) :
                    \E j \in Positions(Trace, "dispose", lastOp.T, o) :
                        j < i /\ Trace[j].h = start[o]
        /\ \A i \in 1 .. Len(Trace) :
              Trace[i].T = lastOp.T /\ start[Trace[i].object] # NoHandle

\* a remove_all with a non-null destroy over two entries has returned
C4_Witness ==
    /\ lastOp.kind = "remove_all"
    /\ pc = "idle"
    /\ ~lastOp.reentered
    /\ lastOp.destroy
    /\ Cardinality({o \in Addrs : start[o] # NoHandle}) >= 2

Observed(ev) == SelectSeq(ev, LAMBDA x : x.e \in {"dispose", "destroy"})
\* C5 as stated: the two builds are observably identical for add, remove and
\* find: each find returns the same, and each call disposes the same handles
\* and invokes the same destroy callbacks in the same order.
C5_BuildsAgree ==
    /\ Observed(perType.ev) = Observed(global.ev)
    /\ lastOp.kind = "find" => lastOp.foundP = lastOp.foundG

ArrayOf(q) == [length |-> Len(q), elems |-> [i \in 0 .. Len(q) - 1 |-> Int32New(q[i + 1])]]
\* C6: converting a sequence yields an array whose length is the number of
\* elements and whose element i is the conversion of the i-th element; the
\* pre-sized and the grown array are the same.
C6_SequenceToArray ==
    /\ output.randomDone => output.random = ArrayOf(input.seq)
    /\ output.forwardDone => output.forward = ArrayOf(input.seq)
    /\ (output.randomDone /\ output.forwardDone) => output.random = output.forward

\* a sequence of maximal length has been converted both ways
C6_Witness ==
    /\ output.randomDone
    /\ output.forwardDone
    /\ Len(input.seq) = MaxLen
    /\ output.forward.length = MaxLen

NameOf(k) == IF k = NullPtr THEN "" ELSE input.mem[k]
LastKey(n) ==
    CHOOSE k \in DOMAIN input.map :
        /\ NameOf(k) = n
        /\ \A k2 \in DOMAIN input.map : NameOf(k2) = n => k2 <= k
\* C7: converting a map yields an object with exactly one property per
\* distinct converted key, holding the converted value of the last entry, in
\* key order, whose key converts to that name.
C7_MapToObject ==
    output.objectDone =>
        /\ DOMAIN output.object = {NameOf(k) : k \in DOMAIN input.map}
        /\ \A n \in DOMAIN output.object :
              output.object[n] = Int32New(input.map[LastKey(n)])

\* a map with two keys of the same name and different values has been converted
C7_Witness ==
    /\ output.objectDone
    /\ \E k1, k2 \in DOMAIN input.map :
          /\ k1 < k2
          /\ NameOf(k1) = NameOf(k2)
          /\ input.map[k1] # input.map[k2]
          /\ output.object[NameOf(k1)] = Int32New(input.map[k2])

\* C8 as stated: a second add for a registered o supersedes the first:
\* afterwards find(o) returns the second handle.
C8_SecondAddSupersedes ==
    (lastOp.kind = "add" /\ Found # NoHandle) => find(lastOp.T, lastOp.object) = lastOp.h

\* C8 amended: a second add for a registered o is ignored: afterwards find(o)
\* still returns the first handle, the table holds one entry for o, and the
\* second handle is stored nowhere and not disposed.
C8_FirstAddIsKept ==
    (lastOp.kind = "add" /\ Found # NoHandle) =>
        /\ find(lastOp.T, lastOp.object) = Found
        /\ Found # lastOp.h
        /\ ~Stored(lastOp.h)
        /\ Disposed(lastOp.h) = 0

\* a second add for a registered object has been made
C8_Witness ==
    /\ lastOp.kind = "add"
    /\ Found # NoHandle
    /\ lastOp.h = Found + 1
    /\ find(lastOp.T, lastOp.object) = Found

\* what holds during and after a remove_all, whatever its callbacks remove
C9_Safe ==
    lastOp.kind = "remove_all" =>
        /\ \A h \in Handles : Disposed(h) <= 1
        /\ \A T \in Types, o \in Addrs : Cardinality(Positions(Trace, "destroy", T, o)) <= 1
        /\ pc = "idle" => \A o \in Addrs : registered(lastOp.T)[o] = NoHandle

\* C9: remove_all terminates with an empty registry also when destroy
\* callbacks remove other entries; no handle is disposed twice and no object
\* is destroyed twice during it.
C9_RemoveAllTerminates ==
    /\ []C9_Safe
    /\ (pc = "loop") ~> (pc = "idle" /\ \A o \in Addrs : registered(lastOp.T)[o] = NoHandle)

\* a remove_all has returned during which a destroy callback removed another
\* registered entry
C9_Witness ==
    /\ lastOp.kind = "remove_all"
    /\ pc = "idle"
    /\ lastOp.reentered
    /\ \E i \in 1 .. Len(Trace) - 1 :
          /\ Trace[i].e = "destroy"
          /\ Trace[i + 1].e = "dispose"
          /\ Trace[i + 1].object # Trace[i].object
          /\ Trace[i + 1].T = lastOp.T
          /\ start[Trace[i + 1].object] # NoHandle

\* C10 as stated: every handle passed to add is disposed exactly once: none
\* twice, and none is left undisposed once the registry has been drained.
C10_EveryPassedHandleDisposedOnce ==
    \A h \in 1 .. nextHandle - 1 :
        /\ Disposed(h) <= 1
        /\ Drained => Disposed(h) = 1

\* C10 amended: every handle that add stored (its object was unregistered at
\* the add) is disposed exactly once, when its entry is removed; a handle
\* passed to add for a registered object is never stored and never disposed.
C10_EveryStoredHandleDisposedOnce ==
    \A h \in 1 .. nextHandle - 1 :
        /\ h \in hist.accepted => Disposed(h) = (IF Stored(h) THEN 0 ELSE 1)
        /\ h \notin hist.accepted => (~Stored(h) /\ Disposed(h) = 0)

\* the registry has been drained after one handle was stored and one dropped
C10_Witness ==
    /\ Drained
    /\ \E h1, h2 \in 1 .. nextHandle - 1 :
          /\ h1 \in hist.accepted
          /\ Disposed(h1) = 1
          /\ h2 \notin hist.accepted
          /\ Disposed(h2) = 0

====
